---- MODULE Spec2Model ----
\* Model of the plain-text structural inference engine
\* (src/any2md/converters/txt.py, structurize).
\*
\* A Python str is a sequence of characters; a character is a one-character
\* TLA+ string.  Characters that cannot be written inside a TLA+ string
\* literal have named tokens: "bullet" is U+2022, "endash" is U+2013,
\* "middot" is U+00B7 and "backtick" is U+0060.
\* The cursor i is 0-based as in the source, so lines[i] of the source is
\* lines[i + 1] here.
\*
\* text, lines, output, i, title_emitted and n are the parameter and the
\* locals of structurize; result is its return value; pc is the control
\* position ("call", "loop", "done", or "error" after an IndexError).
\* History variables: rule is the branch the latest loop iteration took,
\* prev_output and prev_i are output and i at the top of that iteration,
\* tags[k] is the branch that emitted (or last rewrote) output[k].
\* pass counts the calls when structurize is applied to its own result;
\* out1 and tags1 keep output and tags of the first call.
\* promoted counts the separator lines that promoted an output line and
\* blocks the indented blocks emitted since the call began.
\* conv is the state of the caller convert_txt: its control position pc
\* ("off" when structurize is run on its own), whether out_path existed
\* when the call began, the force flag, the content of the file at txt_path, raw_text, the value
\* returned ("none" until it returns) and whether it wrote out_path.
EXTENDS Integers, Sequences, FiniteSets, TLC

VARIABLES text, lines, output, i, title_emitted, n, pc, result,
          pass, out1, tags1, rule, prev_output, prev_i, tags, conv,
          promoted, blocks

vars == <<text, lines, output, i, title_emitted, n, pc, result,
          pass, out1, tags1, rule, prev_output, prev_i, tags, conv,
          promoted, blocks>>

\* ---------------------------------------------------------------- bounds
\* Largest number of lines of an input text.
MaxLines == 3

\* ------------------------------------------------------ program constants
TabWidth == 4
SepMinRepeat == 2
CapsMinTail == 2
CapsMaxTail == 78
CapsMaxLen == 80
HeadMinLen == 3
HeadMaxLen == 80
MinWords == 2
MaxDigits == 3
RatioNum == 7
RatioDen == 10

\* ------------------------------------------------------------ characters
UpperSeq == <<"A", "B", "C", "D", "E", "F", "G", "H", "I", "J", "K", "L", "M",
              "N", "O", "P", "Q", "R", "S", "T", "U", "V", "W", "X", "Y", "Z">>
LowerSeq == <<"a", "b", "c", "d", "e", "f", "g", "h", "i", "j", "k", "l", "m",
              "n", "o", "p", "q", "r", "s", "t", "u", "v", "w", "x", "y", "z">>
UpperSet == {UpperSeq[k] : k \in 1..Len(UpperSeq)}
LowerSet == {LowerSeq[k] : k \in 1..Len(LowerSeq)}
DigitSet == {"0", "1", "2", "3", "4", "5", "6", "7", "8", "9"}

\* str.isspace for the characters of the model (regex \s agrees on them).
IsSpace(c) == c \in {" ", "\t", "\n"}
\* str.isupper of one character.
IsUpper(c) == c \in UpperSet
\* A cased character (str.title treats exactly these as word characters).
IsCased(c) == c \in UpperSet \cup LowerSet
\* str.lower / str.upper of one character.
ToLower(c) == IF c \in UpperSet
              THEN LowerSeq[CHOOSE k \in 1..Len(UpperSeq) : UpperSeq[k] = c]
              ELSE c
ToUpper(c) == IF c \in LowerSet
              THEN UpperSeq[CHOOSE k \in 1..Len(LowerSeq) : LowerSeq[k] = c]
              ELSE c

\* --------------------------------------------------------- str operations
\* s[from:] with a 1-based first position.
From(s, k) == SubSeq(s, k, Len(s))

\* str.lstrip(): drop leading whitespace (also what a greedy \s+ leaves for
\* the group that follows it).
RECURSIVE LStrip(_)
LStrip(s) == IF s = <<>> \/ ~IsSpace(Head(s)) THEN s ELSE LStrip(Tail(s))

\* str.rstrip(): drop trailing whitespace.
RECURSIVE RStrip(_)
RStrip(s) ==
    IF s = <<>> \/ ~IsSpace(s[Len(s)]) THEN s
    ELSE RStrip(SubSeq(s, 1, Len(s) - 1))

\* str.strip(): drop leading and trailing whitespace.
Strip(s) == RStrip(LStrip(s))

\* str.startswith(prefix)
StartsWith(s, p) == Len(s) >= Len(p) /\ SubSeq(s, 1, Len(p)) = p

\* str.lower() of a whole string.
Lower(s) == [k \in 1..Len(s) |-> ToLower(s[k])]

\* text.replace("\t", "    "), by halves.
RECURSIVE ExpandTabs(_)
ExpandTabs(t) ==
    IF t = <<>> THEN <<>>
    ELSE IF Len(t) = 1
         THEN (IF t[1] = "\t" THEN [k \in 1..TabWidth |-> " "] ELSE t)
    ELSE ExpandTabs(SubSeq(t, 1, Len(t) \div 2))
         \o ExpandTabs(SubSeq(t, Len(t) \div 2 + 1, Len(t)))

\* str.find from position k (1-based) of a character of class C; 0 if none.
Find(t, k, C) ==
    LET hits == {m \in k..Len(t) : t[m] \in C}
    IN  IF hits = {} THEN 0 ELSE CHOOSE m \in hits : \A h \in hits : m <= h

\* text.split("\n"): always at least one line.
RECURSIVE Split(_)
Split(t) ==
    LET nl == Find(t, 1, {"\n"})
    IN  IF nl = 0 THEN <<t>>
        ELSE <<SubSeq(t, 1, nl - 1)>> \o Split(From(t, nl + 1))

\* "\n".join(ls)
RECURSIVE Join(_)
Join(ls) ==
    IF ls = <<>> THEN <<>>
    ELSE IF Len(ls) = 1 THEN ls[1]
    ELSE ls[1] \o <<"\n">> \o Join(Tail(ls))

\* str.split(): the maximal runs of non-whitespace characters.
RECURSIVE Words(_)
Words(s) ==
    LET t == LStrip(s)
        sp == Find(t, 1, {" ", "\t", "\n"})
    IN  IF t = <<>> THEN <<>>
        ELSE IF sp = 0 THEN <<t>>
        ELSE <<SubSeq(t, 1, sp - 1)>> \o Words(From(t, sp))

\* ---------------------------------------------------------------- patterns
SepChars == {"=", "-", "*", "_", "~"}
BulletChars == {"bullet", "endash", "middot"}
CapsTailChars == UpperSet \cup DigitSet \cup {" ", "/", "&", ",", ":", "-"}

\* _SEPARATOR_RE.match(s): one separator character, repeated at least twice
\* more, then only whitespace.
_SEPARATOR_RE(s) ==
    /\ Len(s) >= 1 + SepMinRepeat
    /\ s[1] \in SepChars
    /\ \E k \in (1 + SepMinRepeat)..Len(s) :
          /\ \A m \in 1..k : s[m] = s[1]
          /\ \A m \in (k + 1)..Len(s) : IsSpace(s[m])

\* _BULLET_RE.match(s)
_BULLET_RE(s) == Len(s) >= 2 /\ s[1] \in BulletChars /\ IsSpace(s[2])
\* _BULLET_RE group(1)
BulletGroup(s) == LStrip(From(s, 2))

\* Length of the run of characters of class C starting at position p, counted
\* up to max + 1 (a longer run cannot match a {1,max} repetition).
RunLen(s, p, C, max) ==
    Cardinality({d \in 0..max :
        \A m \in p..(p + d) : m <= Len(s) /\ s[m] \in C})

\* Position right after the marker "(?" tok{1,max} "[.)]" ")?" of a numbered
\* or lettered item, or 0 when the marker does not match.
MarkerEnd(s, C, max) ==
    LET p0 == IF Len(s) >= 1 /\ s[1] = "(" THEN 2 ELSE 1
        d  == RunLen(s, p0, C, max)
        p1 == p0 + d
    IN  IF d >= 1 /\ d <= max /\ p1 <= Len(s) /\ s[p1] \in {".", ")"}
        THEN (IF p1 + 1 <= Len(s) /\ s[p1 + 1] = ")" THEN p1 + 2 ELSE p1 + 1)
        ELSE 0

\* NumberedGroup taking the whole match (group(0)) instead of group(1).
NumberedGroup_WholeMatch(s) == s

\* _NUMBERED_RE.match(s) and its group(1)
_NUMBERED_RE(s) ==
    LET e == MarkerEnd(s, DigitSet, MaxDigits)
    IN  e > 0 /\ e <= Len(s) /\ IsSpace(s[e])
NumberedGroup(s) == LStrip(From(s, MarkerEnd(s, DigitSet, MaxDigits)))

\* _LETTERED_RE.match(s) and its group(1)
_LETTERED_RE(s) ==
    LET e == MarkerEnd(s, UpperSet \cup LowerSet, 1)
    IN  e > 0 /\ e <= Len(s) /\ IsSpace(s[e])
LetteredGroup(s) == LStrip(From(s, MarkerEnd(s, UpperSet \cup LowerSet, 1)))

\* IndentGroup taking the stripped line instead of group(1).
IndentGroup_Stripped(l) == Strip(l)

\* _INDENT_RE matching only a line whose fifth character is not a space.
_INDENT_RE_ExactlyFour(l) ==
    /\ Len(l) >= 4 /\ \A k \in 1..4 : l[k] = " "
    /\ (Len(l) >= 5 => l[5] # " ")

\* _INDENT_RE.match(l): four spaces, or a tab.
_INDENT_RE(l) ==
    \/ Len(l) >= TabWidth /\ \A k \in 1..TabWidth : l[k] = " "
    \/ Len(l) >= 1 /\ l[1] = "\t"

\* _INDENT_RE group(1)
IndentGroup(l) ==
    IF Len(l) >= TabWidth /\ \A k \in 1..TabWidth : l[k] = " "
    THEN From(l, TabWidth + 1)
    ELSE From(l, 2)

\* _ALL_CAPS_RE.match(s)
_ALL_CAPS_RE(s) ==
    /\ Len(s) >= 1 + CapsMinTail
    /\ Len(s) <= 1 + CapsMaxTail
    /\ s[1] \in UpperSet
    /\ \A k \in 2..Len(s) : s[k] \in CapsTailChars

\* _is_title_case(line)
Skip == { <<"a">>, <<"a", "n">>, <<"t", "h", "e">>, <<"a", "n", "d">>,
          <<"o", "r">>, <<"b", "u", "t">>, <<"i", "n">>, <<"o", "n">>,
          <<"a", "t">>, <<"t", "o">>, <<"f", "o", "r">>, <<"o", "f">>,
          <<"w", "i", "t", "h">>, <<"b", "y">>, <<"f", "r", "o", "m">>,
          <<"i", "s">> }
_is_title_case(line) ==
    LET words == Words(line)
        caps == Cardinality({k \in 1..Len(words) :
                    IsUpper(words[k][1]) \/ Lower(words[k]) \in Skip})
    IN  IF Len(words) < MinWords THEN FALSE
        ELSE caps * RatioDen >= Len(words) * RatioNum

\* _title_case_from_caps(text) = text.title(): a cased character is
\* upper-cased at the start of a run of cased characters, lower-cased inside.
_title_case_from_caps(s) ==
    [k \in 1..Len(s) |->
        IF IsCased(s[k])
        THEN (IF k > 1 /\ IsCased(s[k - 1]) THEN ToLower(s[k]) ELSE ToUpper(s[k]))
        ELSE s[k]]

\* ------------------------------------------------------------------ inputs
\* n copies of the character c.
Rep(c, k) == [m \in 1..k |-> c]

\* The lines an input text is built from (before tab expansion).
Pool == {
    <<>>,
    <<"=", "=", "=">>,
    <<"-", "-", "-">>,
    <<" ", " ", " ", " ", "x">>,
    <<" ", " ", " ", " ", " ">>,
    <<" ", " ", " ", " ", " ", "x">>,
    <<" ", " ", " ", " ", "=", "=", "=">>,
    <<"\t", "bullet", " ", "x">>,
    <<"bullet", " ", "x">>,
    <<"1", ".", " ", "x">>,
    <<"a", ")", " ", "x">>,
    <<"A", "B", " ", "C", " ", "D">>,
    <<"A", "b", " ", "C", "d">>,
    <<"a", "\t", "b">>,
    <<"#", " ", "x">>,
    <<" ", "#", " ", "x">>
}

\* The lines of the inputs that probe the length limits of the heading
\* rules: one line for every rule, and ALL-CAPS lines at and around the limits.
LongPool == {
    <<>>,
    <<"=", "=", "=">>,
    <<" ", " ", " ", " ", "x">>,
    <<"bullet", " ", "x">>,
    <<"1", ".", " ", "x">>,
    <<"a", ")", " ", "x">>,
    <<"A", "b", " ", "C", "d">>,
    <<"a", "b">>,
    <<"A", "B">>,
    <<"A", "B", "C">>,
    Rep("A", CapsMaxLen - 1),
    Rep("A", CapsMaxLen),
    Rep("A", CapsMaxLen + 1)
}

\* A line of k characters in title case: two capitalised words.
TitleLine(k) == <<"A", "b", " ", "B">> \o Rep("b", k - 4)

\* The lines of the inputs that probe the conditions of the title-case rule:
\* one line for every rule, and lines that fail one condition each.
TitlePool == {
    <<>>,
    <<"=", "=", "=">>,
    <<" ", " ", " ", " ", "x">>,
    <<"bullet", " ", "x">>,
    <<"1", ".", " ", "x">>,
    <<"a", ")", " ", "x">>,
    <<"A", "B", " ", "C", "D">>,
    <<"A", "b", " ", "C", "d">>,
    <<"A", "b", " ", "c", "d">>,
    <<"o", "f", " ", "t", "h", "e">>,
    <<"A", "b", " ", "C", "d", ":">>,
    <<"A", "b">>,
    [k \in 1..19 |-> IF k % 2 = 0 THEN " " ELSE IF k <= 13 THEN "A" ELSE "b"],
    TitleLine(HeadMaxLen),
    TitleLine(HeadMaxLen + 1)
}

\* Every text of 1..MaxLines lines of a pool, joined by newlines.
TextsOf(P) == {Join(ls) : ls \in UNION {[1..k -> P] : k \in 1..MaxLines}}
Inputs == TextsOf(Pool)
LongInputs == TextsOf(LongPool)

\* The lines of the inputs that probe the collection of an indented block:
\* empty and whitespace-only blank lines, an indented line, a plain line
\* that is a title when isolated, and a separator.
BlockPool == {
    <<>>,
    <<" ", " ", " ", " ", " ">>,
    <<" ", " ", " ", " ", "x">>,
    <<"A", "b", " ", "C", "d">>,
    <<"=", "=", "=">>
}
\* One-line inputs for the rules the block inputs do not reach.
OtherRuleLines == {
    <<"bullet", " ", "x">>,
    <<"1", ".", " ", "x">>,
    <<"a", ")", " ", "x">>,
    <<"A", "B", " ", "C", "D">>
}
\* Every text of 1..MaxLines + 2 lines of BlockPool, and the one-line texts.
BlockInputs ==
    {Join(ls) : ls \in UNION {[1..k -> BlockPool] : k \in 1..(MaxLines + 2)}}
    \cup OtherRuleLines
TitleInputs == TextsOf(TitlePool)

\* ------------------------------------------------------- structurize state
\* lines[k] of the source; the empty string outside the list (the model's
\* stand-in for the value of an access that raises IndexError, see IndexOK).
At(ls, k) == IF k + 1 \in DOMAIN ls THEN ls[k + 1] ELSE <<>>

\* output[-1]
Last(s) == s[Len(s)]

\* line = lines[i]; stripped = line.strip()
line == At(lines, i)
stripped == Strip(line)
\* HasNext with the bound off by one (lines[i + 1] is read on the last line).
HasNext_OffByOne == i < n

\* the guards of the two conditional expressions for the neighbours
HasPrev == i > 0
HasNext == i < n - 1
\* prev_stripped = lines[i - 1].strip() if i > 0 else ""
prev_stripped == IF HasPrev THEN Strip(At(lines, i - 1)) ELSE <<>>
\* next_stripped = lines[i + 1].strip() if i < n - 1 else ""
next_stripped == IF HasNext THEN Strip(At(lines, i + 1)) ELSE <<>>

\* Every list access of the iteration header is inside the list (no
\* IndexError is raised).
IndexOK ==
    /\ i + 1 \in DOMAIN lines
    /\ HasPrev => i \in DOMAIN lines
    /\ HasNext => i + 2 \in DOMAIN lines

\* stripped.endswith((".", "!", "?", ",", ";", ":"))
EndsWithPunct(s) == s # <<>> /\ Last(s) \in {".", "!", "?", ",", ";", ":"}

\* The tests of the cascade, in source order.
sep_match == _SEPARATOR_RE(stripped) /\ stripped # <<>>
indent_test == _INDENT_RE(line) /\ stripped # <<>>
bullet_m == _BULLET_RE(stripped)
num_m == _NUMBERED_RE(stripped)
let_m == IF ~num_m THEN _LETTERED_RE(stripped) ELSE FALSE
caps_test ==
    /\ _ALL_CAPS_RE(stripped) /\ Len(stripped) <= CapsMaxLen
    /\ (next_stripped = <<>> \/ i = n - 1)
\* title_test without the test that the previous line is blank.
title_test_NoPrevBlank ==
    /\ HeadMinLen <= Len(stripped) /\ Len(stripped) <= HeadMaxLen
    /\ next_stripped = <<>>
    /\ _is_title_case(stripped)
    /\ ~EndsWithPunct(stripped)
    /\ i > 0

title_test ==
    /\ HeadMinLen <= Len(stripped) /\ Len(stripped) <= HeadMaxLen
    /\ prev_stripped = <<>>
    /\ next_stripped = <<>>
    /\ _is_title_case(stripped)
    /\ ~EndsWithPunct(stripped)
    /\ i > 0

\* AtIndented with the indented-block test tried before the separator test.
AtIndented_First == _INDENT_RE(At(lines, i)) /\ Strip(At(lines, i)) # <<>>

\* Which test the control flow reaches: a test is evaluated only when every
\* earlier one failed (each successful branch ends in `continue`).
AtSeparator == sep_match
AtIndented == ~sep_match /\ indent_test
AtBullet == ~sep_match /\ ~indent_test /\ bullet_m
AtNumbered == ~sep_match /\ ~indent_test /\ ~bullet_m /\ num_m
AtLettered == ~sep_match /\ ~indent_test /\ ~bullet_m /\ ~num_m /\ let_m
AtAllCaps ==
    /\ ~sep_match /\ ~indent_test /\ ~bullet_m /\ ~num_m /\ ~let_m
    /\ caps_test
AtTitleCase ==
    /\ ~sep_match /\ ~indent_test /\ ~bullet_m /\ ~num_m /\ ~let_m
    /\ ~caps_test /\ title_test
AtDefault ==
    /\ ~sep_match /\ ~indent_test /\ ~bullet_m /\ ~num_m /\ ~let_m
    /\ ~caps_test /\ ~title_test

\* Markdown fragments
Fence == <<"backtick", "backtick", "backtick">>
Hr == <<"-", "-", "-">>
H1 == <<"#", " ">>
H2 == <<"#", "#", " ">>
H3 == <<"#", "#", "#", " ">>
Ul == <<"-", " ">>
Ol == <<"1", ".", " ">>

\* convert_txt is not running.
ConvOff == [pc |-> "off", out_exists |-> FALSE, force |-> FALSE,
            file |-> <<>>, raw_text |-> <<>>, returned |-> "none",
            written |-> FALSE]

InitWith(T) ==
    /\ text \in T
    /\ conv = ConvOff
    /\ promoted = 0
    /\ blocks = 0
    /\ lines = <<>>
    /\ output = <<>>
    /\ i = 0
    /\ title_emitted = FALSE
    /\ n = 0
    /\ pc = "call"
    /\ result = <<>>
    /\ pass = 1
    /\ out1 = <<>>
    /\ tags1 = <<>>
    /\ rule = "none"
    /\ prev_output = <<>>
    /\ prev_i = 0
    /\ tags = <<>>

Init == InitWith(Inputs)

\* structurize(text) up to the loop header.
Call ==
    /\ pc = "call"
    /\ lines' = Split(ExpandTabs(text))
    /\ output' = <<>>
    /\ i' = 0
    /\ title_emitted' = FALSE
    /\ n' = Len(Split(ExpandTabs(text)))
    /\ pc' = "loop"
    /\ rule' = "none"
    /\ prev_output' = <<>>
    /\ prev_i' = 0
    /\ tags' = <<>>
    /\ promoted' = 0
    /\ blocks' = 0
    /\ UNCHANGED <<text, result, pass, out1, tags1, conv>>

\* An IndexError leaves structurize.
Raise ==
    /\ pc' = "error"
    /\ UNCHANGED <<text, lines, output, i, title_emitted, n, result,
                   pass, out1, tags1, rule, prev_output, prev_i, tags, conv,
                   promoted, blocks>>

\* while i < n
Looping == pc = "loop" /\ i < n

\* 1 for a condition that holds, 0 otherwise.
Bit(b) == IF b THEN 1 ELSE 0

\* One iteration of the main loop that took the branch r: the new output,
\* the rule tag of every output line, the new cursor and the new flag.
\* rule, prev_output and prev_i record the branch and the state at the top
\* of the iteration; promoted and blocks count the promotions (the branch
\* that retags the last output line) and the blocks.
Iteration(r, out, tg, ni, te) ==
    /\ IF IndexOK
       THEN /\ output' = out
            /\ tags' = tg
            /\ i' = ni
            /\ title_emitted' = te
            /\ rule' = r
            /\ prev_output' = output
            /\ prev_i' = i
            /\ promoted' = promoted
                  + Bit(r = "Separator" /\ tg # <<>>
                        /\ tg[Len(tg)] = "SetextHeading")
            /\ blocks' = blocks + Bit(r = "IndentedBlockStart")
            /\ UNCHANGED <<text, lines, n, pc, result, pass, out1, tags1,
                           conv>>
       ELSE Raise

\* --- 1. Separator / setext underline detection ---
\* CanPromote without the test that the previous line is already a heading.
CanPromote_NoHeadingTest ==
    /\ (IF i > 0 THEN Strip(At(lines, i - 1)) ELSE <<>>) # <<>>
    /\ output # <<>>
    /\ Strip(output[Len(output)]) # <<>>

\* SetextMarker with the two heading levels exchanged.
SetextMarker_Swapped(char) ==
    IF char = "=" THEN <<"#", "#", " ">> ELSE <<"#", " ">>

\* prev_stripped and output and output[-1].strip() and not
\* prev_text.startswith("#")
CanPromote ==
    /\ prev_stripped # <<>>
    /\ output # <<>>
    /\ Strip(Last(output)) # <<>>
    /\ ~StartsWith(Strip(Last(output)), <<"#">>)
\* the heading marker chosen by the separator character
SetextMarker(char) == IF char = "=" THEN H1 ELSE H2

\* Promoted appending the heading instead of rewriting the last line.
Promoted_Appended(char) ==
    Append(output, SetextMarker(char) \o Strip(output[Len(output)]))

\* Promoted assigning to output[0] instead of output[-1].
Promoted_FirstLine(char) ==
    [output EXCEPT ![1] = SetextMarker(char) \o Strip(output[Len(output)])]

\* output after output[-1] = "# " + prev_text (or "## " + prev_text)
Promoted(char) ==
    [output EXCEPT ![Len(output)] = SetextMarker(char) \o Strip(Last(output))]

\* Separator setting title_emitted when it promotes a line to level 1.
Separator_SetsTitle ==
    /\ pc = "loop" /\ i < n
    /\ AtSeparator
    /\ IF CanPromote
       THEN Iteration("Separator",
                Promoted(stripped[1]),
                [tags EXCEPT ![Len(tags)] = "SetextHeading"],
                i + 1, title_emitted \/ stripped[1] = "=")
       ELSE Iteration("Separator",
                Append(output, Hr), Append(tags, "Rule"),
                i + 1, title_emitted)

Separator ==
    /\ Looping
    /\ AtSeparator
    /\ IF CanPromote
       THEN Iteration("Separator",
                Promoted(stripped[1]),
                [tags EXCEPT ![Len(tags)] = "SetextHeading"],
                i + 1, title_emitted)
       ELSE Iteration("Separator",
                Append(output, Hr), Append(tags, "Rule"),
                i + 1, title_emitted)

\* --- 2. Indented block detection ---
\* Peek without the inner scan: the position right after the blank line.
Peek_NoScan(j) == j

\* The first position at or after j whose line is not blank (or n).
RECURSIVE Peek(_)
Peek(j) == IF j < n /\ Strip(At(lines, j)) = <<>> THEN Peek(j + 1) ELSE j

\* Collect without the lookahead: every blank line is taken into the block.
RECURSIVE Collect_NoLookahead(_, _)
Collect_NoLookahead(k, block) ==
    IF k < n /\ (_INDENT_RE(At(lines, k)) \/ Strip(At(lines, k)) = <<>>)
    THEN Collect_NoLookahead(k + 1,
            Append(block, IF Strip(At(lines, k)) = <<>> THEN <<>>
                          ELSE IndentGroup(At(lines, k))))
    ELSE [i |-> k, block_lines |-> block]

\* The inner while loop from cursor k with block_lines = block: the cursor
\* and the block it ends with.
RECURSIVE Collect(_, _)
Collect(k, block) ==
    IF k < n /\ (_INDENT_RE(At(lines, k)) \/ Strip(At(lines, k)) = <<>>)
    THEN IF Strip(At(lines, k)) = <<>>
         THEN IF Peek(k + 1) < n /\ _INDENT_RE(At(lines, Peek(k + 1)))
              THEN Collect(k + 1, Append(block, <<>>))
              ELSE [i |-> k, block_lines |-> block]
         ELSE Collect(k + 1,
                Append(block, IF _INDENT_RE(At(lines, k))
                              THEN IndentGroup(At(lines, k))
                              ELSE At(lines, k)))
    ELSE [i |-> k, block_lines |-> block]

\* The positions at which the inner while loop, run from cursor k0 to the
\* cursor k1 it ends with, starts a lookahead scan (j = i + 1): the blank
\* lines it meets, the one it breaks at included.
ScanStarts(k0, k1) == {p \in k0..k1 : p < n /\ Strip(At(lines, p)) = <<>>}
\* The positions whose lines the scan started at the blank line p reads
\* (lines[j] in the condition of the scan and in the test after it).
ScanReads(p) == {q \in (p + 1)..Peek(p + 1) : q < n}

IndentedBlock ==
    /\ Looping
    /\ AtIndented
    /\ LET c == Collect(i, <<>>)
       IN  Iteration("IndentedBlockStart",
                output \o <<Fence>> \o c.block_lines \o <<Fence>>,
                tags \o <<"Fence">>
                     \o [k \in 1..Len(c.block_lines) |-> "Code"]
                     \o <<"Fence">>,
                c.i, title_emitted)

\* --- 3. Bullet list normalization ---
Bullet ==
    /\ Looping
    /\ AtBullet
    /\ Iteration("BulletItem",
            Append(output, Ul \o BulletGroup(stripped)),
            Append(tags, "BulletItem"), i + 1, title_emitted)

\* --- 4. Numbered/lettered list normalization ---
Numbered ==
    /\ Looping
    /\ AtNumbered
    /\ Iteration("NumberedItem",
            Append(output, Ol \o NumberedGroup(stripped)),
            Append(tags, "NumberedItem"), i + 1, title_emitted)

Lettered ==
    /\ Looping
    /\ AtLettered
    /\ Iteration("LetteredItem",
            Append(output, Ol \o LetteredGroup(stripped)),
            Append(tags, "LetteredItem"), i + 1, title_emitted)

\* --- 5. ALL CAPS heading detection ---
\* CapsMarker that never consults title_emitted.
CapsMarker_AlwaysTitle == <<"#", " ">>

\* the heading marker chosen by title_emitted
CapsMarker == IF ~title_emitted THEN H1 ELSE H2

AllCaps ==
    /\ Looping
    /\ AtAllCaps
    /\ Iteration("AllCapsHeading",
            Append(output, CapsMarker \o _title_case_from_caps(stripped)),
            Append(tags, "AllCapsHeading"), i + 1, TRUE)

\* --- 6. Title Case sub-heading detection ---
TitleCase ==
    /\ Looping
    /\ AtTitleCase
    /\ Iteration("TitleCaseHeading",
            Append(output, H3 \o stripped),
            Append(tags, "TitleCaseHeading"), i + 1, title_emitted)

\* --- 7. Default passthrough ---
\* Passthrough appending the stripped line instead of the line.
Passthrough_Stripped == Strip(At(lines, i))

\* what the default branch appends
Passthrough == line

Default ==
    /\ Looping
    /\ AtDefault
    /\ Iteration("Plain", Append(output, Passthrough), Append(tags, "Plain"),
                 i + 1, title_emitted)

\* The loop condition fails: return "\n".join(output)
Return ==
    /\ pc = "loop"
    /\ ~(i < n)
    /\ result' = Join(output)
    /\ pc' = "done"
    /\ UNCHANGED <<text, lines, output, i, title_emitted, n,
                   pass, out1, tags1, rule, prev_output, prev_i, tags, conv,
                   promoted, blocks>>

\* The engine is run again on its own output: structurize(structurize(t)).
\* out1 and tags1 keep the output of the first pass.
Again ==
    /\ pc = "done"
    /\ pass = 1
    /\ pass' = 2
    /\ out1' = output
    /\ tags1' = tags
    /\ text' = result
    /\ pc' = "call"
    /\ UNCHANGED <<lines, output, i, title_emitted, n, result,
                   rule, prev_output, prev_i, tags, conv, promoted, blocks>>

Next ==
    \/ Call
    \/ Separator
    \/ IndentedBlock
    \/ Bullet
    \/ Numbered
    \/ Lettered
    \/ AllCaps
    \/ TitleCase
    \/ Default
    \/ Return

Spec == Init /\ [][Next]_vars

\* structurize applied to its own output.
NextTwice == Next \/ Again

SpecTwice == Init /\ [][NextTwice]_vars

\* structurize on the inputs that probe the length limits.
SpecLong == InitWith(LongInputs) /\ [][Next]_vars

\* structurize on the inputs that probe the collection of indented blocks.
SpecBlock == InitWith(BlockInputs) /\ [][Next]_vars

\* structurize on the inputs that probe the title-case rule.
SpecTitle == InitWith(TitleInputs) /\ [][Next]_vars

\* ------------------------------------------------------------ convert_txt
\* The lines of the files convert_txt is run on: one line for every rule,
\* and blank lines with and without whitespace.
ConvPool == {
    <<>>,
    <<" ", "\t">>,
    <<"=", "=", "=">>,
    <<" ", " ", " ", " ", "x">>,
    <<"bullet", " ", "x">>,
    <<"1", ".", " ", "x">>,
    <<"a", ")", " ", "x">>,
    <<"A", "B", " ", "C", "D">>,
    <<"A", "b", " ", "C", "d">>,
    <<"x">>
}
ConvInputs == TextsOf(ConvPool)

\* convert_txt(txt_path, output_dir, force) is called: structurize is not
\* running, the file holds any of the inputs, out_path exists or not.
InitConvert ==
    /\ text = <<>>
    /\ lines = <<>>
    /\ output = <<>>
    /\ i = 0
    /\ title_emitted = FALSE
    /\ n = 0
    /\ pc = "idle"
    /\ result = <<>>
    /\ pass = 1
    /\ out1 = <<>>
    /\ tags1 = <<>>
    /\ rule = "none"
    /\ prev_output = <<>>
    /\ prev_i = 0
    /\ tags = <<>>
    /\ promoted = 0
    /\ blocks = 0
    /\ \E e \in BOOLEAN, f \in BOOLEAN, c \in ConvInputs :
          conv = [pc |-> "start", out_exists |-> e, force |-> f, file |-> c,
                  raw_text |-> <<>>, returned |-> "none", written |-> FALSE]

\* the frame of the steps of convert_txt outside structurize
ConvFrame ==
    UNCHANGED <<lines, output, i, title_emitted, n, result, pass, out1,
                tags1, rule, prev_output, prev_i, tags, promoted, blocks>>

\* if out_path.exists() and not force: return True
ConvStart ==
    /\ conv.pc = "start"
    /\ IF conv.out_exists /\ ~conv.force
       THEN conv' = [conv EXCEPT !.pc = "done", !.returned = "True"]
       ELSE conv' = [conv EXCEPT !.pc = "read"]
    /\ UNCHANGED <<text, pc>>
    /\ ConvFrame

\* raw_text = txt_path.read_text(...), or the read raises and the handler
\* returns False.
ConvRead ==
    /\ conv.pc = "read"
    /\ \/ conv' = [conv EXCEPT !.pc = "check", !.raw_text = conv.file]
       \/ conv' = [conv EXCEPT !.pc = "done", !.returned = "False"]
    /\ UNCHANGED <<text, pc>>
    /\ ConvFrame

\* ConvBlank testing the text without trimming it.
ConvBlank_Untrimmed(raw) == raw = <<>>

\* not raw_text.strip()
ConvBlank(raw) == Strip(raw) = <<>>

\* Reject empty files: return False
ConvReject ==
    /\ conv.pc = "check"
    /\ ConvBlank(conv.raw_text)
    /\ conv' = [conv EXCEPT !.pc = "done", !.returned = "False"]
    /\ UNCHANGED <<text, pc>>
    /\ ConvFrame

\* md_text = structurize(raw_text): the call
ConvStructurize ==
    /\ conv.pc = "check"
    /\ ~ConvBlank(conv.raw_text)
    /\ conv' = [conv EXCEPT !.pc = "structurize"]
    /\ text' = conv.raw_text
    /\ pc' = "call"
    /\ ConvFrame

\* structurize has returned: the text is cleaned, the frontmatter is built
\* and out_path is written, then True is returned; or one of these steps
\* (or structurize itself) raises and the handler returns False.
ConvFinish ==
    /\ conv.pc = "structurize"
    /\ \/ /\ pc = "done"
          /\ conv' = [conv EXCEPT !.pc = "done", !.returned = "True",
                                  !.written = TRUE]
       \/ /\ pc \in {"done", "error"}
          /\ conv' = [conv EXCEPT !.pc = "done", !.returned = "False"]
    /\ UNCHANGED <<text, pc>>
    /\ ConvFrame

NextConvert ==
    \/ ConvStart
    \/ ConvRead
    \/ ConvReject
    \/ ConvStructurize
    \/ ConvFinish
    \/ Next

SpecConvert == InitConvert /\ [][NextConvert]_vars

TypeOK ==
    /\ pc \in {"idle", "call", "loop", "done", "error"}
    /\ pass \in {1, 2}
    /\ i \in 0..n
    /\ title_emitted \in BOOLEAN
    /\ Len(tags) = Len(output)

\* ================================================================= claims
\* The input line the latest iteration classified, and its stripped text.
DoneLine == At(lines, prev_i)
DoneStripped == Strip(DoneLine)
\* The last output line at the top of the latest iteration, stripped.
PrevLastStripped == Strip(Last(prev_output))

\* C1 (as stated): whenever a separator line is processed and the last
\* emitted output line is non-blank and does not itself start with '#', that
\* line is replaced in place by '# ' (separator '=') or '## ' (any other
\* separator) followed by its stripped text, and nothing is appended.
C1_AsStated ==
    (/\ rule = "Separator"
     /\ prev_output # <<>>
     /\ PrevLastStripped # <<>>
     /\ ~StartsWith(Last(prev_output), <<"#">>))
    => output = [prev_output EXCEPT ![Len(prev_output)] =
                    (IF DoneStripped[1] = "=" THEN H1 ELSE H2)
                    \o PrevLastStripped]

\* C1 (amended): whenever a separator line is processed and the last emitted
\* output line is non-blank and its stripped text does not start with '#',
\* that line is replaced in place by '# ' (separator '=') or '## ' (any other
\* separator) followed by its stripped text, and nothing is appended.
C1_SeparatorPromotes ==
    (/\ rule = "Separator"
     /\ prev_output # <<>>
     /\ PrevLastStripped # <<>>
     /\ ~StartsWith(PrevLastStripped, <<"#">>))
    => output = [prev_output EXCEPT ![Len(prev_output)] =
                    (IF DoneStripped[1] = "=" THEN H1 ELSE H2)
                    \o PrevLastStripped]

\* A '-' separator has just promoted the previous output line in place.
C1_Witness ==
    /\ rule = "Separator"
    /\ prev_output # <<>>
    /\ PrevLastStripped # <<>>
    /\ ~StartsWith(PrevLastStripped, <<"#">>)
    /\ DoneStripped[1] = "-"
    /\ Len(output) = Len(prev_output)
    /\ Last(output) = H2 \o PrevLastStripped

\* C2: whenever a separator line is processed and there is no emitted output
\* line yet, or the last one is blank, or the last one starts with '#', the
\* output grows by exactly the line '---' and every earlier line is unchanged.
C2_SeparatorRule ==
    (/\ rule = "Separator"
     /\ \/ prev_output = <<>>
        \/ PrevLastStripped = <<>>
        \/ StartsWith(Last(prev_output), <<"#">>))
    => output = Append(prev_output, Hr)

\* A separator has just been processed right after a line starting with '#'.
C2_Witness ==
    /\ rule = "Separator"
    /\ prev_output # <<>>
    /\ StartsWith(Last(prev_output), <<"#">>)
    /\ output = Append(prev_output, Hr)

\* The lines the indented-block rule collected in the latest iteration are
\* the input lines prev_i .. i - 1.
Collected == [k \in 1..(i - prev_i) |-> At(lines, prev_i + k - 1)]
\* A collected line without its indentation: a blank line is emitted empty,
\* any other line loses its first TabWidth characters.
Unindent(l) == IF Strip(l) = <<>> THEN <<>> ELSE From(l, TabWidth + 1)

\* C3: the lines the indented-block rule collects (each one indented or
\* blank) are emitted in input order with the indentation stripped, between
\* an opening and a closing fence line and with nothing else in between; the
\* closing fence is the last output line when the cursor reaches the line
\* that follows the block.
C3_FencedBlock ==
    rule = "IndentedBlockStart" =>
        /\ output = prev_output \o <<Fence>>
                    \o [k \in 1..Len(Collected) |-> Unindent(Collected[k])]
                    \o <<Fence>>
        /\ \A k \in 1..Len(Collected) :
              \/ Strip(Collected[k]) = <<>>
              \/ SubSeq(Collected[k], 1, TabWidth) = Rep(" ", TabWidth)
        /\ i < n => ~(_INDENT_RE(At(lines, i)) /\ Strip(At(lines, i)) # <<>>)

\* A block of two lines has just been fenced and a non-indented, non-blank
\* line follows it.
C3_Witness ==
    /\ rule = "IndentedBlockStart"
    /\ i - prev_i = 2
    /\ i < n
    /\ Strip(At(lines, i)) # <<>>
    /\ ~_INDENT_RE(At(lines, i))
    /\ Last(output) = Fence
    /\ Len(output) = Len(prev_output) + 4

\* The ALL-CAPS rule fired in an iteration before the latest one.
CapsFiredBefore ==
    \E k \in 1..Len(prev_output) : tags[k] = "AllCapsHeading"

\* C4: the first line handled by the ALL-CAPS rule in a pass is emitted as
\* '# ' + title-cased text, every later one as '## ' + title-cased text,
\* whatever other rules fired in between.
C4_CapsLevels ==
    rule = "AllCapsHeading" =>
        output = Append(prev_output,
                    (IF CapsFiredBefore THEN H2 ELSE H1)
                    \o _title_case_from_caps(DoneStripped))

\* The ALL-CAPS rule has just fired for the second time.
C4_Witness ==
    /\ rule = "AllCapsHeading"
    /\ CapsFiredBefore
    /\ Last(output) = H2 \o <<"A", "b", " ", "C", " ", "D">>

\* The content of a list item: what follows the first run of whitespace of
\* the stripped line (the marker holds no whitespace).
Content(s) == LStrip(From(s, Find(s, 1, {" ", "\t", "\n"})))
\* The marker of a list item: what precedes the first whitespace.
Marker(s) == SubSeq(s, 1, Find(s, 1, {" ", "\t", "\n"}) - 1)
\* The marker without its parentheses and delimiter.
Ordinal(s) == [k \in {m \in 1..Len(Marker(s)) :
                        Marker(s)[m] \notin {"(", ")", "."}} |-> Marker(s)[k]]

\* C5: a line classified as a list item is emitted as exactly one output
\* line: '- ' + content for a bullet item, '1. ' + content for a numbered
\* (digits) and for a lettered (one letter) item, whatever the number or
\* letter was; a lettered item is a line the numbered pattern did not match.
C5_UniformMarkers ==
    /\ rule = "BulletItem" =>
          /\ DoneStripped[1] \in BulletChars
          /\ output = Append(prev_output, Ul \o Content(DoneStripped))
    /\ rule = "NumberedItem" =>
          /\ \A k \in DOMAIN Ordinal(DoneStripped) :
                Ordinal(DoneStripped)[k] \in DigitSet
          /\ output = Append(prev_output, Ol \o Content(DoneStripped))
    /\ rule = "LetteredItem" =>
          /\ ~_NUMBERED_RE(DoneStripped)
          /\ \A k \in DOMAIN Ordinal(DoneStripped) :
                Ordinal(DoneStripped)[k] \in UpperSet \cup LowerSet
          /\ output = Append(prev_output, Ol \o Content(DoneStripped))

\* A numbered item has just been emitted right after a lettered one, both
\* with the marker '1. '.
C5_Witness ==
    /\ rule = "NumberedItem"
    /\ Len(output) >= 2
    /\ tags[Len(output) - 1] = "LetteredItem"
    /\ Last(output) = Ol \o <<"x">>
    /\ output[Len(output) - 1] = Ol \o <<"x">>

\* C6: a line that matches no rule is appended as the tab-expanded input
\* line, byte for byte; when no line of the input matches a rule, the
\* returned string is the input with every tab replaced by four spaces.
C6_PassThrough ==
    /\ rule = "Plain" =>
          output = Append(prev_output, ExpandTabs(Split(text)[prev_i + 1]))
    /\ (pc = "done" /\ \A k \in 1..Len(tags) : tags[k] = "Plain") =>
          result = ExpandTabs(text)

\* A text of several lines with a tab in it has been passed through whole.
C6_Witness ==
    /\ pc = "done"
    /\ n >= 2
    /\ \A k \in 1..Len(tags) : tags[k] = "Plain"
    /\ \E k \in 1..Len(text) : text[k] = "\t"
    /\ result = ExpandTabs(text)
    /\ result # text

\* Some step of structurize is possible: the call, the return, or a branch
\* of the cascade.
CanStep ==
    \/ pc = "call"
    \/ pc = "loop" /\ ~(i < n)
    \/ /\ Looping
       /\ \/ AtDefault \/ AtSeparator \/ AtIndented \/ AtBullet
          \/ AtNumbered \/ AtLettered \/ AtAllCaps \/ AtTitleCase

\* C7: structurize raises no error, every iteration of the main loop moves
\* the cursor forward by at least one line and never past the end, a step
\* is possible until the function has returned, the loop ends with the
\* cursor at the number of lines, and the empty string gives the empty
\* string.
C7_Total ==
    /\ pc # "error"
    /\ pc = "done" \/ CanStep
    /\ rule # "none" => prev_i < i
    /\ pc \in {"loop", "done"} => i <= n /\ n = Len(lines) /\ n >= 1
    /\ pc = "done" => i = n
    /\ (pc = "done" /\ text = <<>>) => result = <<>>

\* structurize has returned the empty string for the empty string.
C7_Witness ==
    /\ pc = "done"
    /\ text = <<>>
    /\ result = <<>>
    /\ i = n

\* The tags of the output lines that a pass emitted as a heading or as a
\* list item.
StructureTags == {"SetextHeading", "AllCapsHeading", "TitleCaseHeading",
                  "BulletItem", "NumberedItem", "LetteredItem"}

\* C8: when structurize is run on its own output, every line that the first
\* pass emitted as a heading or as a list item appears unchanged in the
\* output of the second pass.
C8_SecondPassKeeps ==
    (pass = 2 /\ pc = "done") =>
        \A k \in 1..Len(out1) :
            tags1[k] \in StructureTags =>
                \E m \in 1..Len(output) : output[m] = out1[k]

\* The classifications in their fixed order, and the condition of each one
\* on the input line at position k (0-based).
RuleOrder == <<"Separator", "IndentedBlockStart", "BulletItem",
               "NumberedItem", "LetteredItem", "AllCapsHeading",
               "TitleCaseHeading", "Plain">>
BlankAt(k) == Strip(At(lines, k)) = <<>>
Satisfies(r, k) ==
    LET l == At(lines, k)
        s == Strip(l)
    IN  CASE r = "Separator" -> _SEPARATOR_RE(s)
          [] r = "IndentedBlockStart" -> _INDENT_RE(l) /\ s # <<>>
          [] r = "BulletItem" -> _BULLET_RE(s)
          [] r = "NumberedItem" -> _NUMBERED_RE(s)
          [] r = "LetteredItem" -> _LETTERED_RE(s)
          [] r = "AllCapsHeading" ->
                /\ _ALL_CAPS_RE(s)
                /\ (k + 1 >= Len(lines) \/ BlankAt(k + 1))
          [] r = "TitleCaseHeading" ->
                /\ Len(s) >= HeadMinLen /\ Len(s) <= HeadMaxLen
                /\ k > 0 /\ BlankAt(k - 1)
                /\ (k + 1 >= Len(lines) \/ BlankAt(k + 1))
                /\ _is_title_case(s)
                /\ ~EndsWithPunct(s)
          [] OTHER -> TRUE
\* The earliest classification, in RuleOrder, whose condition the line at k
\* satisfies.
RECURSIVE EarliestFrom(_, _)
EarliestFrom(m, k) ==
    IF m >= Len(RuleOrder) \/ Satisfies(RuleOrder[m], k)
    THEN RuleOrder[m]
    ELSE EarliestFrom(m + 1, k)
Earliest(k) == EarliestFrom(1, k)
\* The number of branches of the cascade that are open at the cursor.
OpenBranches ==
    Bit(AtSeparator) + Bit(AtIndented) + Bit(AtBullet) + Bit(AtNumbered)
    + Bit(AtLettered) + Bit(AtAllCaps) + Bit(AtTitleCase) + Bit(AtDefault)

\* C9: at every cursor position exactly one rule can fire, and the rule
\* that fired is the earliest classification, in the fixed order, whose
\* condition the line satisfies.
C9_FirstMatchWins ==
    /\ Looping => OpenBranches = 1
    /\ rule # "none" => rule = Earliest(prev_i)

\* An indented line whose content is a separator has just been handled by
\* the separator rule.
C9_Witness ==
    /\ rule = "Separator"
    /\ _INDENT_RE(DoneLine)
    /\ Satisfies("IndentedBlockStart", prev_i)
    /\ Earliest(prev_i) = "Separator"

\* C10: a stripped line of 3 to 80 characters (80 included) that starts
\* with an uppercase letter, otherwise holds only uppercase letters, digits,
\* spaces and / & , : -, is followed by a blank line or the end of input and
\* is matched by no earlier rule, is handled by the ALL-CAPS rule and
\* emitted as a level-1 or level-2 heading in title case.
C10_CapsUpTo80 ==
    (/\ rule # "none"
     /\ Len(DoneStripped) >= HeadMinLen
     /\ Len(DoneStripped) <= CapsMaxLen
     /\ DoneStripped[1] \in UpperSet
     /\ \A k \in 2..Len(DoneStripped) : DoneStripped[k] \in CapsTailChars
     /\ (prev_i + 1 >= Len(lines) \/ BlankAt(prev_i + 1))
     /\ \A m \in 1..5 : ~Satisfies(RuleOrder[m], prev_i))
    => /\ rule = "AllCapsHeading"
       /\ \E h \in {H1, H2} :
             output = Append(prev_output,
                             h \o _title_case_from_caps(DoneStripped))

\* C11: a line that none of the rules 1 to 6 matches is emitted as
\* '### ' + stripped line if and only if its stripped length is between 3
\* and 80, it is not the first line, the line before it is blank, the line
\* after it is blank or absent, it has at least 2 words, it does not end in
\* one of . ! ? , ; : and at least 70% of its words start with an uppercase
\* letter or are (case-insensitively) in the stoplist; otherwise the line is
\* appended unchanged.
C11_IsHeading ==
    LET s == DoneStripped
        w == Words(s)
        good == {k \in 1..Len(w) : w[k][1] \in UpperSet \/ Lower(w[k]) \in Skip}
    IN  /\ 3 <= Len(s) /\ Len(s) <= 80
        /\ prev_i # 0
        /\ BlankAt(prev_i - 1)
        /\ (prev_i + 1 = Len(lines) \/ BlankAt(prev_i + 1))
        /\ Len(w) >= 2
        /\ s[Len(s)] \notin {".", "!", "?", ",", ";", ":"}
        /\ 100 * Cardinality(good) >= 70 * Len(w)
C11_TitleCaseIff ==
    (rule # "none" /\ \A m \in 1..6 : ~Satisfies(RuleOrder[m], prev_i)) =>
        IF C11_IsHeading
        THEN output = Append(prev_output, H3 \o DoneStripped)
        ELSE output = Append(prev_output, DoneLine)

\* A title-case line of exactly 80 characters has just been emitted as a
\* level-3 heading.
C11_Witness ==
    /\ rule = "TitleCaseHeading"
    /\ Len(DoneStripped) = 80
    /\ C11_IsHeading
    /\ Last(output) = H3 \o DoneStripped

\* The number of leading whitespace characters of a line.
LeadingSpaces(l) == Len(l) - Len(LStrip(l))

\* C12 (as stated): the indented-block rule fires on a line only when the
\* line has exactly four leading spaces and non-empty stripped content, and
\* no line with five or more leading spaces is collected into a block as an
\* indented line.
C12_AsStated ==
    rule = "IndentedBlockStart" =>
        /\ LeadingSpaces(DoneLine) = 4
        /\ DoneStripped # <<>>
        /\ \A k \in 1..Len(Collected) :
              Strip(Collected[k]) # <<>> => LeadingSpaces(Collected[k]) < 5

\* C12 (amended): the indented-block rule fires on a line only when the
\* line has at least four leading spaces and non-empty stripped content; a
\* non-blank line with four or more leading spaces that is not a separator
\* is a block start, and every non-blank line collected into a block has at
\* least four leading spaces and loses exactly the first four.
C12_AtLeastFour ==
    /\ rule = "IndentedBlockStart" =>
          /\ LeadingSpaces(DoneLine) >= 4
          /\ DoneStripped # <<>>
          /\ \A k \in 1..Len(Collected) :
                Strip(Collected[k]) # <<>> =>
                   /\ LeadingSpaces(Collected[k]) >= 4
                   /\ output[Len(prev_output) + 1 + k]
                        = Rep(" ", LeadingSpaces(Collected[k]) - 4)
                          \o LStrip(Collected[k])
    /\ (/\ rule # "none"
        /\ LeadingSpaces(DoneLine) >= 4
        /\ DoneStripped # <<>>
        /\ ~Satisfies("Separator", prev_i))
       => rule = "IndentedBlockStart"

\* A block has just been emitted that starts at a line with four leading
\* spaces and holds a line with five, which keeps its fifth space.
C12_Witness ==
    /\ rule = "IndentedBlockStart"
    /\ LeadingSpaces(DoneLine) = 4
    /\ i - prev_i = 2
    /\ LeadingSpaces(Collected[2]) = 5
    /\ Strip(Collected[2]) # <<>>
    /\ output[Len(prev_output) + 3] = <<" ", "x">>

\* C13: whenever convert_txt gets past the test of the output file (the
\* file is absent, or force is set) and the content of the input file is
\* empty after whitespace trimming, structurize is not called, no output
\* file is written, and the value returned is False.
C13_BlankRejected ==
    (/\ conv.pc \in {"check", "structurize", "done"}
     /\ (~conv.out_exists \/ conv.force)
     /\ Strip(conv.file) = <<>>)
    => /\ pc = "idle"
       /\ ~conv.written
       /\ conv.pc \in {"check", "done"}
       /\ conv.pc = "done" => conv.returned = "False"

\* convert_txt, forced over an existing output file, has read a file that
\* holds only whitespace and has returned False without calling
\* structurize.
C13_Witness ==
    /\ conv.pc = "done"
    /\ conv.out_exists /\ conv.force
    /\ conv.raw_text # <<>>
    /\ Strip(conv.raw_text) = <<>>
    /\ conv.returned = "False"
    /\ ~conv.written
    /\ pc = "idle"

\* The first position at or after k whose line is not blank; n if none.
NextNonBlank(k) ==
    LET c == {m \in k..(n - 1) : ~BlankAt(m)}
    IN  IF c = {} THEN n ELSE CHOOSE m \in c : \A h \in c : m <= h
\* The line at position k is indented and not blank.
IndentedAt(k) == ~BlankAt(k) /\ LeadingSpaces(At(lines, k)) >= 4

\* C14: a blank line is inside a collected block, as one empty line, if and
\* only if the first non-blank line after its run is indented; a block ends
\* at the end of input, at a non-indented non-blank line, or before a blank
\* run that is trailing or followed by a non-indented line; the last line
\* inside the fence is not blank; and a blank line outside a block is
\* emitted by the default rule.
C14_BlankRuns ==
    /\ rule = "IndentedBlockStart" =>
          /\ \A k \in prev_i..(i - 1) :
                BlankAt(k) =>
                   /\ NextNonBlank(k) < n
                   /\ IndentedAt(NextNonBlank(k))
                   /\ output[Len(prev_output) + 2 + (k - prev_i)] = <<>>
          /\ i < n =>
                IF BlankAt(i)
                THEN NextNonBlank(i) = n \/ ~IndentedAt(NextNonBlank(i))
                ELSE ~IndentedAt(i)
          /\ Strip(output[Len(output) - 1]) # <<>>
          /\ Len(output) = Len(prev_output) + 2 + (i - prev_i)
    /\ (rule # "none" /\ BlankAt(prev_i)) =>
          /\ rule = "Plain"
          /\ output = Append(prev_output, DoneLine)

\* A block has just been emitted that holds a run of two blank lines
\* between two indented lines.
C14_Witness ==
    /\ rule = "IndentedBlockStart"
    /\ i - prev_i = 4
    /\ BlankAt(prev_i + 1) /\ BlankAt(prev_i + 2)
    /\ SubSeq(output, Len(prev_output) + 1, Len(output))
         = <<Fence, <<"x">>, <<>>, <<>>, <<"x">>, Fence>>

\* a is a prefix of b
IsPrefix(a, b) == Len(a) <= Len(b) /\ SubSeq(b, 1, Len(a)) = a

\* C15 (as stated): the output is append-only: at every step of a pass the
\* previous output is a prefix of the current output.
C15_AsStated ==
    rule # "none" => IsPrefix(prev_output, output)

\* C15 (amended): at every step of a pass the previous output is a prefix
\* of the current output, except at a separator promotion, which rewrites
\* the last output line and nothing else.
C15_AppendOnlyButLast ==
    rule # "none" =>
        \/ IsPrefix(prev_output, output)
        \/ /\ rule = "Separator"
           /\ Len(output) = Len(prev_output)
           /\ \A k \in 1..(Len(output) - 1) : output[k] = prev_output[k]

\* A separator promotion has just rewritten the last of two output lines.
C15_Witness ==
    /\ rule = "Separator"
    /\ Len(output) = 2
    /\ Len(prev_output) = 2
    /\ output[1] = prev_output[1]
    /\ output[2] # prev_output[2]

\* C16: title_emitted is false when the loop of a structurize call starts;
\* a step of the ALL-CAPS rule leaves it true; a step of any other rule,
\* a separator promotion included, leaves it unchanged; so within a call it
\* changes only from false to true.
C16_FlagFrame ==
    [][/\ (pc = "call" /\ pc' = "loop") => ~title_emitted'
       /\ (pc = "loop" /\ i' # i) =>
             title_emitted' = (IF rule' = "AllCapsHeading"
                               THEN TRUE ELSE title_emitted)
       /\ (pc = "loop" /\ i' = i) => title_emitted' = title_emitted
       /\ (pc = "loop" /\ title_emitted) => title_emitted']_vars

\* The ALL-CAPS rule has just fired for the first time, emitting a level-1
\* heading right after a separator promotion that produced a level-1 heading.
C16_Witness ==
    /\ rule = "AllCapsHeading"
    /\ title_emitted
    /\ Len(output) = 2
    /\ tags[1] = "SetextHeading"
    /\ StartsWith(output[1], H1)
    /\ StartsWith(output[2], H1)

\* The number of times the lookahead scans of the block collected by the
\* latest iteration read the input line at position q.
LookaheadVisits(q) ==
    Cardinality({p \in ScanStarts(prev_i, i) : q \in ScanReads(p)})

\* C17: while one indented block is collected, every input line is read by
\* the blank-run lookahead scan at most once, whatever the length of the
\* blank run.
C17_ScannedOnce ==
    rule = "IndentedBlockStart" =>
        \A q \in 0..(n - 1) : LookaheadVisits(q) <= 1

\* C18: every step of the pass grows the output by the number of input
\* lines it consumed, minus one for a promoting separator, plus two for a
\* block; so an input of n lines gives an output of n - p + 2 * b lines (p
\* promoting separators, b blocks), which is the number of lines of the
\* returned string.
C18_LineCount ==
    /\ rule # "none" =>
          Len(output) - Len(prev_output)
             = (i - prev_i)
               - Bit(rule = "Separator" /\ Len(output) = Len(prev_output))
               + 2 * Bit(rule = "IndentedBlockStart")
    /\ pc \in {"loop", "done"} => Len(output) = i - promoted + 2 * blocks
    /\ pc = "done" =>
          /\ Len(output) = n - promoted + 2 * blocks
          /\ Len(Split(result)) = Len(Split(ExpandTabs(text)))
                                    - promoted + 2 * blocks

\* A pass over three lines has returned after one promotion and one block.
C18_Witness ==
    /\ pc = "done"
    /\ n = 3
    /\ promoted = 1
    /\ blocks = 1
    /\ Len(Split(result)) = 4

\* C19: at every loop head with cursor i > 0 the output is non-empty and
\* its last line is blank if and only if the input line i - 1 is blank; so
\* the separator rule's test (previous input line non-blank and last output
\* line non-blank) decides as the test on the last output line alone would.
C19_LastBlankIff ==
    /\ (pc = "loop" /\ i > 0) =>
          /\ output # <<>>
          /\ (Strip(output[Len(output)]) = <<>>) <=> BlankAt(i - 1)
    /\ Looping =>
          ((/\ prev_stripped # <<>>
            /\ output # <<>>
            /\ Strip(output[Len(output)]) # <<>>)
           <=> (output # <<>> /\ Strip(output[Len(output)]) # <<>>))

\* The loop is at a separator line that follows a whitespace-only line,
\* which is the last output line.
C19_Witness ==
    /\ Looping
    /\ i > 0
    /\ sep_match
    /\ At(lines, i - 1) # <<>>
    /\ BlankAt(i - 1)
    /\ output[Len(output)] = At(lines, i - 1)

\* C20: no step rewrites a fence line of the output, and the returned
\* string holds an opening and a closing fence line for every block the
\* indented-block rule emitted.
C20_FencesBalanced ==
    /\ rule # "none" =>
          \A k \in 1..Len(prev_output) :
              prev_output[k] = Fence => output[k] = Fence
    /\ pc = "done" =>
          Cardinality({k \in 1..Len(Split(result)) :
                          Split(result)[k] = Fence}) = 2 * blocks

====
